---- MODULE Spec2Model ----
(***************************************************************************)
(* Host-side DNS forwarder of the host agent (pkg/hostagent/dns.go):       *)
(* configuration discovery (newHandler), per-query routing and forwarding  *)
(* (ServeDNS, matchDomainConfig, tryWithConfig) and the listener runtime   *)
(* (StartDNS, Server.Shutdown).                                            *)
(*                                                                         *)
(* Strings whose characters matter (domain scopes, question names) are     *)
(* sequences of one-character strings; server addresses are atomic.        *)
(***************************************************************************)
EXTENDS Integers, Sequences, FiniteSets, TLC

VARIABLES
    env,            \* what newHandler read: scutil result, /etc/resolv.conf result
    ports,          \* HostAgent.udpDNSLocalPort / tcpDNSLocalPort
    mainPc,         \* position of the caller of StartDNS: "init", "running", "panicked"
    startResult,    \* what StartDNS handed back to its caller
    h,              \* the *Handler built by newHandler
    server,         \* Server.udp / Server.tcp: Nil or the *dns.Server
    taskPc,         \* position of each listener goroutine of StartDNS
    shutdownCalls,  \* number of completed Server.Shutdown calls
    shutdownResult, \* how the last Server.Shutdown call ended
    lastOp,         \* name of the last operation that ran
    qpc,            \* position of the in-flight ServeDNS call
    req,            \* the *dns.Msg being served
    plan,           \* the exchanges ServeDNS's loops make if every one fails
    pos,            \* index in plan of the next exchange
    attempts,       \* exchanges made so far for req, with their results
    written,        \* messages handed to w.WriteMsg for req
    probe           \* names and suffixes given to the suffix test, its verdicts

lifeVars == <<env, ports, mainPc, startResult, h, server, taskPc,
              shutdownCalls, shutdownResult>>
serveVars == <<qpc, req, plan, pos, attempts, written>>
vars == <<lifeVars, serveVars, lastOp, probe>>

------------------------------------------------------------------------------
(* Bounds of the model *)

MaxServers == 2        \* nameservers per platform entry / resolver file
MaxResolvers == 2      \* platform entries read by ReadMacOSDNS
MaxQuestions == 2      \* questions per request
MaxShutdowns == 2      \* Shutdown calls made by the embedding agent
MaxEntries == 3        \* platform entries given to discovery on its own
MaxOrder == 2          \* largest ordering hint of a platform entry
MaxNameLen == 3        \* characters of a question name given to the suffix test
MaxScopeLen == 2       \* characters of a domain suffix given to the suffix test

------------------------------------------------------------------------------
(* Helpers *)

Nil == "nil"

Last(s) == s[Len(s)]

RECURSIVE Flatten(_)
Flatten(ss) == IF ss = <<>> THEN <<>> ELSE Head(ss) \o Flatten(Tail(ss))

SeqsUpTo(S, n) == UNION {[1..k -> S] : k \in 0..n}

Perms(S) == {p \in [1..Cardinality(S) -> S] : \A i, j \in DOMAIN p : p[i] = p[j] => i = j}

------------------------------------------------------------------------------
(* strings.ToLower / strings.HasSuffix on character sequences *)

LowerChar(c) ==
    CASE c = "A" -> "a"
      [] c = "B" -> "b"
      [] OTHER -> c

ToLower(s) == [i \in 1..Len(s) |-> LowerChar(s[i])]

HasSuffix(s, suffix) ==
    /\ Len(s) >= Len(suffix)
    /\ SubSeq(s, Len(s) - Len(suffix) + 1, Len(s)) = suffix

------------------------------------------------------------------------------
(* dns.ClientConfig and its construction *)

\* a nameserver string whose "nameserver ..." line exceeds the scanner's token
\* limit, the one way ClientConfigFromReader returns an error
TooLong == "<overlong>"

DefaultPort == "53"

ClientConfig(servers) == [Servers |-> servers, Port |-> DefaultPort]

\* dns.ClientConfigFromReader over the lines "nameserver <ip>": every ip
\* becomes a server, in order; a scanner error fails the whole parse
newStaticClientConfig(ips) ==
    IF \E i \in DOMAIN ips : ips[i] = TooLong
    THEN [err |-> TRUE, cc |-> ClientConfig(<<>>)]
    ELSE [err |-> FALSE, cc |-> ClientConfig(ips)]

fallbackIPs_Swapped == <<"1.1.1.1", "8.8.8.8">>

fallbackIPs == <<"8.8.8.8", "1.1.1.1">>

clients == <<"udp", "tcp">>

EmptyHandler ==
    [domainClientConfigs |-> <<>>, defaultClientConfigs |-> <<>>, clients |-> clients]

NoHandler == [domainClientConfigs |-> <<>>, defaultClientConfigs |-> <<>>, clients |-> <<>>]

------------------------------------------------------------------------------
(* sort.Slice on fewer than 12 elements is an insertion sort driven by less *)

less(a, b) ==
    \/ (a.Domain # <<>> /\ b.Domain = <<>>)
    \/ a.Order < b.Order

Swap(s, i, j) == [s EXCEPT ![i] = s[j], ![j] = s[i]]

RECURSIVE SiftDown(_, _)
SiftDown(s, j) ==
    IF j > 1 /\ less(s[j], s[j - 1]) THEN SiftDown(Swap(s, j, j - 1), j - 1) ELSE s

RECURSIVE InsertionSortFrom(_, _)
InsertionSortFrom(s, i) ==
    IF i > Len(s) THEN s ELSE InsertionSortFrom(SiftDown(s, i), i + 1)

SortSlice_Unsorted(s) == s

\* sort.Slice on a short slice: insertion sort with the closure as less
SortSlice(s) == InsertionSortFrom(s, 2)

------------------------------------------------------------------------------
(* newHandler *)

Reachable_KeepAll(rs) == rs

\* the loop that skips the entries whose Reachable() is false
Reachable(rs) == SelectSeq(rs, LAMBDA r : r.Reachable)

\* the loop over the sorted resolvers: one client config per resolver, appended
\* to the default chain or to the list of the resolver's Domain key
RECURSIVE AddResolvers(_, _)
AddResolvers(hd, rs) ==
    IF rs = <<>> THEN [err |-> FALSE, h |-> hd]
    ELSE LET r == Head(rs)
             made == newStaticClientConfig(r.Nameservers)
         IN IF made.err THEN [err |-> TRUE, h |-> NoHandler]
            ELSE IF r.Domain = <<>>
            THEN AddResolvers(
                     [hd EXCEPT !.defaultClientConfigs = Append(@, made.cc)],
                     Tail(rs))
            ELSE LET m == hd.domainClientConfigs
                     old == IF r.Domain \in DOMAIN m THEN m[r.Domain] ELSE <<>>
                     new == [k \in DOMAIN m \cup {r.Domain} |->
                                IF k = r.Domain THEN Append(old, made.cc) ELSE m[k]]
                 IN AddResolvers([hd EXCEPT !.domainClientConfigs = new], Tail(rs))

newHandler(e) ==
    IF e.scutil.err
    THEN IF e.file.err
         THEN LET made == newStaticClientConfig(fallbackIPs)
              IN IF made.err THEN [err |-> TRUE, h |-> NoHandler]
                 ELSE [err |-> FALSE,
                       h |-> [EmptyHandler EXCEPT !.defaultClientConfigs = <<made.cc>>]]
         ELSE [err |-> FALSE,
               h |-> [EmptyHandler EXCEPT
                         !.defaultClientConfigs = <<ClientConfig(e.file.Servers)>>]]
    ELSE AddResolvers(EmptyHandler, SortSlice(Reachable(e.scutil.Resolvers)))

------------------------------------------------------------------------------
(* The environment newHandler reads *)

T == {"udp", "tcp"}

\* a port the agent leaves unset (0, or a negative value) and a port it sets
PortValues == {-1, 0, 53}

Scopes == {<<>>, <<"a">>, <<"A">>}

IPPool == <<"10.0.0.1", "10.0.0.2", "10.0.0.3", "10.0.0.4">>

IPs(n) == [i \in 1..n |-> IPPool[i]]

Resolver(d, o, reach, ns) ==
    [Domain |-> d, Order |-> o, Reachable |-> reach, Nameservers |-> ns]

ScutilErr == [err |-> TRUE, Resolvers |-> <<>>]
ScutilOk(rs) == [err |-> FALSE, Resolvers |-> rs]
FileErr == [err |-> TRUE, Servers |-> <<>>]
FileOk(servers) == [err |-> FALSE, Servers |-> servers]

\* ReadMacOSDNS failed: /etc/resolv.conf is read, and may fail too
FallbackEnvs ==
    {[scutil |-> ScutilErr, file |-> f] :
        f \in {FileErr} \cup {FileOk(IPs(n)) : n \in 0..MaxServers}}

PlatformEnvs(resolvers) ==
    {[scutil |-> ScutilOk(rs), file |-> FileErr] : rs \in SeqsUpTo(resolvers, MaxResolvers)}

LifeResolvers ==
    {Resolver(d, 1, TRUE, ns) :
        d \in Scopes, ns \in {IPs(n) : n \in 0..MaxServers} \cup {<<TooLong>>}}

LifeEnvs == FallbackEnvs \cup PlatformEnvs(LifeResolvers)

------------------------------------------------------------------------------
(* StartDNS, its listener goroutines, Server.Shutdown *)

Crashed == mainPc = "panicked"

NoRequest == [Id |-> 0, Opcode |-> 0, Question |-> <<>>]
NoProbe == [names |-> <<>>, domains |-> <<>>, matched |-> <<>>]

IdleServe ==
    /\ qpc = "idle"
    /\ req = NoRequest
    /\ plan = <<>>
    /\ pos = 1
    /\ attempts = <<>>
    /\ written = <<>>

InitLife ==
    /\ env \in LifeEnvs
    /\ ports \in [T -> PortValues]
    /\ mainPc = "init"
    /\ startResult = "none"
    /\ h = NoHandler
    /\ server = [t \in T |-> Nil]
    /\ taskPc = [t \in T |-> "none"]
    /\ shutdownCalls = 0
    /\ shutdownResult = "none"
    /\ lastOp = "none"
    /\ IdleServe
    /\ probe = NoProbe

StartsListener_NonNegative(port) == port >= 0

\* the guard of each "go func()" of StartDNS
StartsListener(port) == port > 0

\* newHandler, then panic on its error, else the Server handle and one
\* goroutine per enabled transport; the handle's fields are still nil
StartDNS ==
    /\ mainPc = "init"
    /\ LET made == newHandler(env)
       IN IF made.err
          THEN /\ mainPc' = "panicked"
               /\ startResult' = "panic"
               /\ UNCHANGED <<h, taskPc>>
          ELSE /\ mainPc' = "running"
               /\ startResult' = "server"
               /\ h' = made.h
               /\ taskPc' = [t \in T |->
                               IF StartsListener(ports[t]) THEN "spawned" ELSE "none"]
    /\ server' = [t \in T |-> Nil]
    /\ lastOp' = "StartDNS"
    /\ UNCHANGED <<env, ports, shutdownCalls, shutdownResult, serveVars, probe>>

\* goroutine: s := &dns.Server{...}; server.udp = s   (unsynchronised write)
TaskAssign(t) ==
    /\ ~Crashed
    /\ taskPc[t] = "spawned"
    /\ server' = [server EXCEPT ![t] = "set"]
    /\ taskPc' = [taskPc EXCEPT ![t] = "assigned"]
    /\ lastOp' = "TaskAssign"
    /\ UNCHANGED <<env, ports, mainPc, startResult, h, shutdownCalls,
                   shutdownResult, serveVars, probe>>

\* goroutine: s.ListenAndServe() binds and serves
TaskServe(t) ==
    /\ ~Crashed
    /\ taskPc[t] = "assigned"
    /\ taskPc' = [taskPc EXCEPT ![t] = "serving"]
    /\ lastOp' = "TaskServe"
    /\ UNCHANGED <<env, ports, mainPc, startResult, h, server, shutdownCalls,
                   shutdownResult, serveVars, probe>>

\* goroutine: s.ListenAndServe() returns an error; panic(e) ends the process
TaskBindFail(t) ==
    /\ ~Crashed
    /\ taskPc[t] = "assigned"
    /\ taskPc' = [taskPc EXCEPT ![t] = "panicked"]
    /\ mainPc' = "panicked"
    /\ lastOp' = "TaskBindFail"
    /\ UNCHANGED <<env, ports, startResult, h, server, shutdownCalls,
                   shutdownResult, serveVars, probe>>

\* (*dns.Server).Shutdown: stops a started server (its ListenAndServe then
\* returns nil); on a server that is not started it only returns an error
dnsServerShutdown(pc) ==
    IF pc = "serving"
    THEN [pc |-> "stopped", err |-> FALSE, panic |-> FALSE]
    ELSE [pc |-> pc, err |-> TRUE, panic |-> FALSE]

ShutdownField_NoNilCheck(ptr, pc) ==
    IF ptr # Nil THEN dnsServerShutdown(pc)
    ELSE [pc |-> pc, err |-> FALSE, panic |-> TRUE]

\* if s.udp != nil { _ = s.udp.Shutdown() }
ShutdownField(ptr, pc) ==
    IF ptr # Nil THEN dnsServerShutdown(pc)
    ELSE [pc |-> pc, err |-> FALSE, panic |-> FALSE]

\* Server.Shutdown reads each field once and touches only that transport, so
\* its two halves commute with the other transport's goroutine: one step
Shutdown ==
    /\ mainPc = "running"
    /\ shutdownCalls < MaxShutdowns
    /\ LET r == [t \in T |-> ShutdownField(server[t], taskPc[t])]
       IN /\ taskPc' = [t \in T |-> r[t].pc]
          /\ IF \E t \in T : r[t].panic
             THEN mainPc' = "panicked" /\ shutdownResult' = "panic"
             ELSE mainPc' = mainPc /\ shutdownResult' = "returned"
    /\ shutdownCalls' = shutdownCalls + 1
    /\ lastOp' = "Shutdown"
    /\ UNCHANGED <<env, ports, startResult, h, server, serveVars, probe>>

NextLife ==
    \/ StartDNS
    \/ \E t \in T : TaskAssign(t)
    \/ \E t \in T : TaskServe(t)
    \/ \E t \in T : TaskBindFail(t)
    \/ Shutdown

SpecLife == InitLife /\ [][NextLife]_vars

------------------------------------------------------------------------------
(* Requests and upstream results *)

OpcodeQuery == 0
OpcodeIQuery == 1
RcodeServerFailure == 2

\* QUERY, inverse QUERY, and STATUS for the opcodes ServeDNS does not route
Opcodes == {OpcodeQuery, OpcodeIQuery, 2}

\* response codes an upstream may answer with: NOERROR, NXDOMAIN
UpstreamRcodes == {0, 3}

Ids == {1, 2}

\* question names as they are in a *dns.Msg: fully qualified, with the final
\* dot: "b.a.", "ba.", "b."
Names == {<<"b", ".", "a", ".">>, <<"b", "a", ".">>, <<"b", ".">>}

\* the question sections: up to MaxQuestions distinct questions
Questions ==
    {q \in SeqsUpTo([Name : Names], MaxQuestions) :
        \A i, j \in DOMAIN q : q[i] = q[j] => i = j}

Requests == [Id : Ids, Opcode : Opcodes, Question : Questions]

NoMsg ==
    [Id |-> 0, Response |-> FALSE, Opcode |-> 0, RecursionAvailable |-> FALSE,
     Rcode |-> 0, Answer |-> <<>>]

\* what an upstream server answers to r: its own payload, any response code
UpstreamReply(r, at, rcode) ==
    [Id |-> r.Id, Response |-> TRUE, Opcode |-> r.Opcode, RecursionAvailable |-> TRUE,
     Rcode |-> rcode, Answer |-> <<at.net, at.addr>>]

\* client.Exchange(req, addr): a transport-level error, or a reply
ExchangeResults(r, at) ==
    {[err |-> TRUE, reply |-> NoMsg]} \cup
    {[err |-> FALSE, reply |-> UpstreamReply(r, at, rc)] :
        rc \in UpstreamRcodes}

------------------------------------------------------------------------------
(* tryWithConfig, matchDomainConfig, ServeDNS: the order of the exchanges *)

DefaultGroup(i) == [scope |-> <<>>, idx |-> i]
DomainGroup(domain, i) == [scope |-> domain, idx |-> i]

tryWithConfigPlan_AddressMajor(hd, cc, group, name) ==
    Flatten([s \in 1..Len(cc.Servers) |->
        [c \in 1..Len(hd.clients) |->
            [for |-> name, group |-> group, net |-> hd.clients[c],
             addr |-> <<cc.Servers[s], cc.Port>>]]])

\* the exchanges of one tryWithConfig call, should all of them fail:
\* for each client (UDP, TCP), for each server of the config
tryWithConfigPlan(hd, cc, group, name) ==
    Flatten([c \in 1..Len(hd.clients) |->
        [s \in 1..Len(cc.Servers) |->
            [for |-> name, group |-> group, net |-> hd.clients[c],
             addr |-> <<cc.Servers[s], cc.Port>>]]])

\* strings.HasSuffix(strings.ToLower(q.Name), strings.ToLower(domain)+".")
MatchesDomain_NameAsIs(name, domain) == HasSuffix(name, ToLower(domain) \o <<".">>)

\* the test of matchDomainConfig's if
MatchesDomain(name, domain) == HasSuffix(ToLower(name), ToLower(domain) \o <<".">>)

\* matchDomainConfig for one question; order is the order in which this
\* range over the map happens to visit its keys
matchDomainConfigPlan(hd, q, order) ==
    Flatten([k \in 1..Len(order) |->
        IF MatchesDomain(q.Name, order[k])
        THEN Flatten([i \in 1..Len(hd.domainClientConfigs[order[k]]) |->
                 tryWithConfigPlan(hd, hd.domainClientConfigs[order[k]][i],
                                   DomainGroup(order[k], i), q.Name)])
        ELSE <<>>])

DefaultChainPlan(hd) ==
    Flatten([i \in 1..Len(hd.defaultClientConfigs) |->
        tryWithConfigPlan(hd, hd.defaultClientConfigs[i], DefaultGroup(i), <<>>)])

DomainPlan_AnyOpcode(hd, r, orders) ==
    Flatten([qi \in 1..Len(r.Question) |->
        matchDomainConfigPlan(hd, r.Question[qi], orders[qi])])

\* ServeDNS's switch: the questions' loop runs for QUERY and IQUERY only
DomainPlan(hd, r, orders) ==
    IF r.Opcode = OpcodeQuery \/ r.Opcode = OpcodeIQuery
    THEN Flatten([qi \in 1..Len(r.Question) |->
             matchDomainConfigPlan(hd, r.Question[qi], orders[qi])])
    ELSE <<>>

ServeDNSPlan_DefaultFirst(hd, r, orders) ==
    DefaultChainPlan(hd) \o DomainPlan(hd, r, orders)

ServeDNSPlan(hd, r, orders) ==
    DomainPlan(hd, r, orders) \o DefaultChainPlan(hd)

ServfailReply_SetReply(r) ==
    [Id |-> r.Id, Response |-> TRUE, Opcode |-> r.Opcode, RecursionAvailable |-> FALSE,
     Rcode |-> 0, Answer |-> <<>>]

\* the message ServeDNS builds when every exchange failed
ServfailReply(r) ==
    [Id |-> r.Id, Response |-> TRUE, Opcode |-> r.Opcode, RecursionAvailable |-> FALSE,
     Rcode |-> RcodeServerFailure, Answer |-> <<>>]

IsSuccess_RcodeChecked(result) == ~result.err /\ result.reply.Rcode = 0

\* tryWithConfig: "if err != nil { ...; continue }"
IsSuccess(result) == ~result.err

SameCall(a, b) == a.for = b.for /\ a.group = b.group

RECURSIVE SkipCall(_, _, _)
SkipCall(pl, p, at) ==
    IF p <= Len(pl) /\ SameCall(pl[p], at) THEN SkipCall(pl, p + 1, at) ELSE p

AfterFailure_AbortGroup(pl, p) == SkipCall(pl, p, pl[p])

\* "continue": the next server of the client, the next client, the next group
AfterFailure(pl, p) == p + 1

AfterAnswer_KeepTrying(pl, p) == [qpc |-> "serving", pos |-> p + 1]

\* "return nil" up to ServeDNS's "return"
AfterAnswer(pl, p) == [qpc |-> "done", pos |-> p]

------------------------------------------------------------------------------
(* ServeDNS, one exchange per step *)

\* the resolver file may also name one server twice
ServeEnvs ==
    {[scutil |-> ScutilErr, file |-> f] :
        f \in {FileErr, FileOk(IPs(MaxServers)), FileOk(<<IPPool[1], IPPool[1]>>)}}
    \cup PlatformEnvs({Resolver(d, 1, TRUE, IPs(MaxServers)) : d \in Scopes})

\* the state StartDNS and its goroutines leave: both listeners serving
InitServe ==
    /\ env \in ServeEnvs
    /\ ports = [t \in T |-> 53]
    /\ mainPc = "running"
    /\ startResult = "server"
    /\ h = newHandler(env).h
    /\ server = [t \in T |-> "set"]
    /\ taskPc = [t \in T |-> "serving"]
    /\ shutdownCalls = 0
    /\ shutdownResult = "none"
    /\ lastOp = "Return"
    /\ IdleServe
    /\ probe = NoProbe

\* a listener hands a request to ServeDNS
Receive ==
    /\ ~Crashed
    /\ \E t \in T : taskPc[t] = "serving"
    /\ qpc = "idle"
    /\ \E r \in Requests :
       \E orders \in [1..Len(r.Question) -> Perms(DOMAIN h.domainClientConfigs)] :
          /\ req' = r
          /\ plan' = ServeDNSPlan(h, r, orders)
    /\ pos' = 1
    /\ attempts' = <<>>
    /\ written' = <<>>
    /\ qpc' = "serving"
    /\ lastOp' = "Receive"
    /\ UNCHANGED <<lifeVars, probe>>

Attempt(at, result) == [at |-> at, msg |-> req, err |-> result.err, reply |-> result.reply]

\* hd with address a struck from the server list of group g
WithoutServer(hd, g, a) ==
    IF g.scope = <<>>
    THEN [hd EXCEPT !.defaultClientConfigs[g.idx].Servers =
                        SelectSeq(@, LAMBDA x : x # a)]
    ELSE [hd EXCEPT !.domainClientConfigs[g.scope][g.idx].Servers =
                        SelectSeq(@, LAMBDA x : x # a)]

ExchangeFails_DropsServer ==
    /\ qpc = "serving"
    /\ pos <= Len(plan)
    /\ \E result \in ExchangeResults(req, plan[pos]) :
          /\ ~IsSuccess(result)
          /\ attempts' = Append(attempts, Attempt(plan[pos], result))
    /\ pos' = AfterFailure(plan, pos)
    /\ h' = WithoutServer(h, plan[pos].group, plan[pos].addr[1])
    /\ lastOp' = "ExchangeFails"
    /\ UNCHANGED <<env, ports, mainPc, startResult, server, taskPc, shutdownCalls,
                   shutdownResult, probe, qpc, req, plan, written>>

\* an exchange that tryWithConfig takes as failed: logged, next candidate
ExchangeFails ==
    /\ qpc = "serving"
    /\ pos <= Len(plan)
    /\ \E result \in ExchangeResults(req, plan[pos]) :
          /\ ~IsSuccess(result)
          /\ attempts' = Append(attempts, Attempt(plan[pos], result))
    /\ pos' = AfterFailure(plan, pos)
    /\ lastOp' = "ExchangeFails"
    /\ UNCHANGED <<lifeVars, probe, qpc, req, plan, written>>

\* an exchange that tryWithConfig takes as the answer: written, ServeDNS returns
ExchangeAnswers ==
    /\ qpc = "serving"
    /\ pos <= Len(plan)
    /\ \E result \in ExchangeResults(req, plan[pos]) :
          /\ IsSuccess(result)
          /\ attempts' = Append(attempts, Attempt(plan[pos], result))
          /\ written' = Append(written, result.reply)
    /\ qpc' = AfterAnswer(plan, pos).qpc
    /\ pos' = AfterAnswer(plan, pos).pos
    /\ lastOp' = "ExchangeAnswers"
    /\ UNCHANGED <<lifeVars, probe, req, plan>>

\* every loop of ServeDNS ran out: the synthesized reply
WriteServfail ==
    /\ qpc = "serving"
    /\ pos > Len(plan)
    /\ written' = Append(written, ServfailReply(req))
    /\ qpc' = "done"
    /\ lastOp' = "WriteServfail"
    /\ UNCHANGED <<lifeVars, probe, req, plan, pos, attempts>>

\* ServeDNS has returned; the request and its writer are dropped
Return ==
    /\ qpc = "done"
    /\ qpc' = "idle"
    /\ req' = NoRequest
    /\ plan' = <<>>
    /\ pos' = 1
    /\ attempts' = <<>>
    /\ written' = <<>>
    /\ lastOp' = "Return"
    /\ UNCHANGED <<lifeVars, probe>>

NextServe ==
    \/ Receive
    \/ ExchangeFails
    \/ ExchangeAnswers
    \/ WriteServfail
    \/ Return

SpecServe == InitServe /\ [][NextServe]_vars

------------------------------------------------------------------------------
(* newHandler on its own: StartDNS with no listener port set, for every list of
   platform entries of any scope, ordering hint and reachability. The entry at
   position i of the list names the nameserver IPPool[i], which tells the
   groups of the resulting tables apart. *)

DiscoverChoices == [d : Scopes, o : 1..MaxOrder, r : BOOLEAN]

DiscoverResolvers ==
    UNION {{[i \in 1..n |-> Resolver(f[i].d, f[i].o, f[i].r, <<IPPool[i]>>)] :
               f \in [1..n -> DiscoverChoices]} : n \in 0..MaxEntries}

DiscoverEnvs == {[scutil |-> ScutilOk(rs), file |-> FileErr] : rs \in DiscoverResolvers}

InitDiscover ==
    /\ env \in DiscoverEnvs
    /\ ports = [t \in T |-> 0]
    /\ mainPc = "init"
    /\ startResult = "none"
    /\ h = NoHandler
    /\ server = [t \in T |-> Nil]
    /\ taskPc = [t \in T |-> "none"]
    /\ shutdownCalls = 0
    /\ shutdownResult = "none"
    /\ lastOp = "none"
    /\ IdleServe
    /\ probe = NoProbe

NextDiscover == StartDNS

SpecDiscover == InitDiscover /\ [][NextDiscover]_vars

------------------------------------------------------------------------------
(* The suffix test of matchDomainConfig on its own: two question names and two
   map keys, each pair spelled alike up to letter case, are put through it. *)

MatchChars == {"a", "A", "."}
MatchNames == UNION {[1..n -> MatchChars] : n \in 1..MaxNameLen}
MatchScopes == UNION {[1..n -> MatchChars] : n \in 1..MaxScopeLen}

\* s and t are the same string up to the case of their letters
SameUpToCase(s, t) ==
    /\ Len(s) = Len(t)
    /\ \A i \in 1..Len(s) :
          s[i] = t[i] \/ {s[i], t[i]} \in {{"a", "A"}, {"b", "B"}}

InitMatch ==
    /\ env = [scutil |-> ScutilErr, file |-> FileErr]
    /\ ports = [t \in T |-> 53]
    /\ mainPc = "running"
    /\ startResult = "server"
    /\ h = newHandler(env).h
    /\ server = [t \in T |-> "set"]
    /\ taskPc = [t \in T |-> "serving"]
    /\ shutdownCalls = 0
    /\ shutdownResult = "none"
    /\ lastOp = "none"
    /\ IdleServe
    /\ \E n1 \in MatchNames, d1 \in MatchScopes :
       \E n2 \in {n \in MatchNames : SameUpToCase(n1, n)},
          d2 \in {d \in MatchScopes : SameUpToCase(d1, d)} :
          probe = [names |-> <<n1, n2>>, domains |-> <<d1, d2>>, matched |-> <<>>]

\* line 340 evaluated for (names[1], domains[1]) and for (names[2], domains[2])
Match ==
    /\ probe.matched = <<>>
    /\ probe' = [probe EXCEPT !.matched =
                    [k \in 1..2 |-> MatchesDomain(probe.names[k], probe.domains[k])]]
    /\ lastOp' = "Match"
    /\ UNCHANGED <<lifeVars, serveVars>>

NextMatch == Match

SpecMatch == InitMatch /\ [][NextMatch]_vars

------------------------------------------------------------------------------
(* Listener runtime and discovery: properties *)

AllTasksRan == \A t \in T : taskPc[t] \notin {"spawned", "assigned"}

\* C7: once Shutdown has returned and every listener goroutine has run, no
\* transport that StartDNS started (port > 0) is still bound and serving.
C7_ShutdownStopsEveryStartedListener ==
    (shutdownCalls >= 1 /\ AllTasksRan /\ ~Crashed) =>
        \A t \in T : ports[t] > 0 => taskPc[t] # "serving"

\* C8: Shutdown never panics and surfaces no error, whichever transports were
\* started, and a Shutdown call that directly follows another one changes
\* neither the handle nor any listener.
C8_ShutdownTotalAndIdempotent ==
    /\ [](shutdownResult \in {"none", "returned"})
    /\ [][(lastOp = "Shutdown" /\ shutdownCalls' = shutdownCalls + 1) =>
             (server' = server /\ taskPc' = taskPc /\ mainPc' = mainPc)]_vars

\* the second of two Shutdown calls in succession has returned, for a server
\* with one transport serving before the first call and one never started
C8_Witness ==
    /\ shutdownCalls = 2
    /\ lastOp = "Shutdown"
    /\ shutdownResult = "returned"
    /\ \E t \in T : taskPc[t] = "stopped"
    /\ \E t \in T : ports[t] = 0 /\ server[t] = Nil

\* C9: when discovery fails, StartDNS hands its caller an error value (no
\* panic) and builds no handler and no listener.
C9_DiscoveryFailureIsReturned ==
    (mainPc # "init" /\ newHandler(env).err) =>
        /\ startResult = "error"
        /\ ~Crashed
        /\ h = NoHandler
        /\ \A t \in T : taskPc[t] = "none"

\* C10: with scutil unavailable, discovery succeeds with an empty domain table
\* and a default chain of exactly one group: the servers 8.8.8.8, 1.1.1.1 in
\* that order when the resolver file is unusable too, else the file's servers.
C10_FallbackChains ==
    (startResult # "none" /\ env.scutil.err) =>
        /\ startResult = "server"
        /\ DOMAIN h.domainClientConfigs = {}
        /\ Len(h.defaultClientConfigs) = 1
        /\ h.defaultClientConfigs[1].Servers =
              IF env.file.err THEN <<"8.8.8.8", "1.1.1.1">> ELSE env.file.Servers

C10_Witness ==
    /\ startResult = "server"
    /\ env.scutil.err
    /\ env.file.err
    /\ h.defaultClientConfigs = <<ClientConfig(<<"8.8.8.8", "1.1.1.1">>)>>

------------------------------------------------------------------------------
(* Query handling: properties *)

Scoped(a) == a.at.group.scope # <<>>

AllFailed == \A i \in DOMAIN attempts : attempts[i].err

\* the configuration a logged attempt was made with
GroupConfig(g) ==
    IF g.scope = <<>> THEN h.defaultClientConfigs[g.idx]
    ELSE h.domainClientConfigs[g.scope][g.idx]

\* the name without its final dot
Unqualified(name) ==
    IF name # <<>> /\ Last(name) = "." THEN SubSeq(name, 1, Len(name) - 1) ELSE name

\* label-boundary match: the name is the scope, or ends with "." and the scope
LabelMatch(name, scope) ==
    LET n == ToLower(Unqualified(name))
        d == ToLower(scope)
    IN n = d \/ HasSuffix(n, <<".">> \o d)

\* C1: when ServeDNS returns and no exchange succeeded, it has written exactly
\* the synthesized reply: the request's ID and opcode, response flag set,
\* recursion-available false, response code SERVFAIL.
C1_ServfailWhenNothingAnswers ==
    (qpc = "done" /\ AllFailed) =>
        /\ Len(written) = 1
        /\ written[1].Id = req.Id
        /\ written[1].Opcode = req.Opcode
        /\ written[1].Response
        /\ ~written[1].RecursionAvailable
        /\ written[1].Rcode = 2

\* every exchange of a domain-scoped group and of a default group has failed
C1_Witness ==
    /\ qpc = "done"
    /\ AllFailed
    /\ \E i \in DOMAIN attempts : Scoped(attempts[i])
    /\ \E i \in DOMAIN attempts : ~Scoped(attempts[i])
    /\ written = <<[Id |-> req.Id, Response |-> TRUE, Opcode |-> req.Opcode,
                    RecursionAvailable |-> FALSE, Rcode |-> 2, Answer |-> <<>>]>>

\* C2: a scope's groups are tried for a question only if the question's name
\* matches the scope on a label boundary.
C2_ScopeSelectedOnlyOnLabelBoundary ==
    \A i \in DOMAIN attempts :
        Scoped(attempts[i]) => LabelMatch(attempts[i].at.for, attempts[i].at.group.scope)

\* every exchange the scoped groups of the matching suffixes owe to request r
OwedScoped(r) ==
    {[for |-> r.Question[qi].Name, group |-> DomainGroup(d, gi), net |-> h.clients[c],
      addr |-> <<h.domainClientConfigs[d][gi].Servers[s], h.domainClientConfigs[d][gi].Port>>] :
        <<qi, d, gi, c, s>> \in
            {x \in (DOMAIN r.Question) \X (DOMAIN h.domainClientConfigs) \X (1..MaxResolvers)
                   \X (DOMAIN h.clients) \X (1..MaxServers) :
                /\ LabelMatch(r.Question[x[1]].Name, x[2])
                /\ x[3] \in DOMAIN h.domainClientConfigs[x[2]]
                /\ x[5] \in DOMAIN h.domainClientConfigs[x[2]][x[3]].Servers}}

\* C3: for a QUERY or inverse QUERY, no exchange with a domain-scoped group
\* follows an exchange with a default group, and a default group is tried only
\* after every exchange of every group of every suffix that matches a question
\* of the message has been made and has failed.
C3_ScopedGroupsBeforeDefaultChain ==
    LET unscoped == {j \in DOMAIN attempts : ~Scoped(attempts[j])}
    IN (req.Opcode \in {0, 1} /\ unscoped # {}) =>
          LET first == CHOOSE j \in unscoped : \A k \in unscoped : j <= k
              before == {attempts[i].at : i \in {k \in 1..(first - 1) : attempts[k].err}}
          IN /\ \A i \in DOMAIN attempts : Scoped(attempts[i]) => i < first
             /\ OwedScoped(req) \subseteq before

\* a default group is tried after the scoped groups of a matching name failed
C3_Witness ==
    /\ req.Opcode = 0
    /\ OwedScoped(req) # {}
    /\ \E j \in DOMAIN attempts : ~Scoped(attempts[j])

\* C4: the exchange that succeeds is the last one of the query, what it was
\* sent is the whole request, its reply is the one message written, and no
\* default group was contacted if a domain-scoped group answered.
C4_NothingAfterFirstSuccess ==
    \A i \in DOMAIN attempts :
        /\ attempts[i].msg = req
        /\ ~attempts[i].err =>
              /\ i = Len(attempts)
              /\ qpc = "done"
              /\ Len(written) = 1
              /\ Scoped(attempts[i]) => \A j \in DOMAIN attempts : Scoped(attempts[j])

\* a two-question request answered by the scoped group of its first question,
\* with the second question's groups and the default chain left untried
C4_Witness ==
    /\ qpc = "done"
    /\ Len(req.Question) = 2
    /\ attempts # <<>>
    /\ ~Last(attempts).err
    /\ Last(attempts).at.for = req.Question[1].Name
    /\ Scoped(Last(attempts))
    /\ Len(attempts) < Len(plan)
    /\ \E p \in DOMAIN plan : plan[p].group.scope = <<>>

\* C5: a reply that carries a DNS error code is still the answer: it is
\* written as it came, no further exchange is made, and no synthesized reply
\* takes its place.
C5_ErrorRcodeIsSuccess ==
    \A i \in DOMAIN attempts :
        (~attempts[i].err /\ attempts[i].reply.Rcode # 0) =>
            /\ i = Len(attempts)
            /\ qpc = "done"
            /\ written = <<attempts[i].reply>>
            /\ written[1].Rcode = attempts[i].reply.Rcode

\* the first default group failed on every address and transport, the second
\* one answered NXDOMAIN
C5_Witness ==
    /\ qpc = "done"
    /\ Len(attempts) >= 2
    /\ Last(attempts).reply.Rcode = 3
    /\ ~Last(attempts).err
    /\ Last(attempts).at.group = DefaultGroup(2)
    /\ written = <<Last(attempts).reply>>
    /\ Len(attempts) < Len(plan)

\* the exchanges of attempts[i]'s tryWithConfig call made up to i
MadeInCall(i) ==
    {attempts[j].at : j \in {k \in 1..i : SameCall(attempts[k].at, attempts[i].at)}}

\* attempts[i] is the last exchange of its tryWithConfig call and failed
CallFailedAt(i) ==
    /\ attempts[i].err
    /\ \/ i < Len(attempts) /\ ~SameCall(attempts[i + 1].at, attempts[i].at)
       \/ i = Len(attempts) /\ qpc = "done"

\* C6: a failed exchange does not end its group: the group is left as failed
\* only once every one of its addresses has failed over UDP and over TCP, and
\* when the exchange after a failed one succeeds, its reply is what is written.
C6_FailureDoesNotAbortGroup ==
    \A i \in DOMAIN attempts :
        /\ CallFailedAt(i) =>
              LET made == MadeInCall(i)
                  cc == GroupConfig(attempts[i].at.group)
              IN \A c \in DOMAIN h.clients : \A s \in DOMAIN cc.Servers :
                    \E a \in made : a.net = h.clients[c] /\ a.addr[1] = cc.Servers[s]
        /\ (i > 1 /\ attempts[i - 1].err /\ ~attempts[i].err) =>
              written = <<attempts[i].reply>>

\* a scoped group's first address failed and its second address answered
C6_Witness ==
    /\ qpc = "done"
    /\ Len(attempts) = 2
    /\ Scoped(attempts[1])
    /\ attempts[1].err
    /\ attempts[1].at.addr[1] = GroupConfig(attempts[1].at.group).Servers[1]
    /\ ~attempts[2].err
    /\ SameCall(attempts[2].at, attempts[1].at)
    /\ attempts[2].at.net = attempts[1].at.net
    /\ attempts[2].at.addr[1] = GroupConfig(attempts[1].at.group).Servers[2]
    /\ written = <<attempts[2].reply>>

\* C11: StartDNS starts the listener goroutine of a transport exactly when that
\* transport's port is greater than zero, whatever the other transport's port.
C11_ListenerIffPortPositive ==
    (startResult = "server") =>
        \A t \in T :
            /\ (taskPc[t] # "none") <=> (ports[t] > 0)
            /\ (server[t] # Nil) => (ports[t] > 0)

\* one transport serving on its port, the other never started for port 0
C11_Witness ==
    /\ startResult = "server"
    /\ \E t \in T : ports[t] = 53 /\ taskPc[t] = "serving"
    /\ \E t \in T : ports[t] = 0 /\ taskPc[t] = "none" /\ server[t] = Nil

\* C12: whether a domain suffix matches a question name does not depend on the
\* letter case of either: two names alike up to case, tested against two
\* suffixes alike up to case, get the same verdict.
C12_MatchIgnoresCase ==
    (probe.matched # <<>>) => (probe.matched[1] = probe.matched[2])

\* a name and a suffix that match, and the differently spelled pair matching too
C12_Witness ==
    /\ probe.matched = <<TRUE, TRUE>>
    /\ probe.names[1] # probe.names[2]
    /\ probe.domains[1] # probe.domains[2]

\* C13: ServeDNS writes nothing while it is still trying and exactly one
\* message by the time it returns: the reply of its one successful exchange as
\* it came, or, when no exchange succeeded, the synthesized SERVFAIL message.
C13_ExactlyOneReply ==
    LET ok == {i \in DOMAIN attempts : ~attempts[i].err}
    IN /\ Len(written) <= 1
       /\ Cardinality(ok) <= 1
       /\ (qpc = "serving") => (written = <<>>)
       /\ (qpc = "done") =>
             /\ Len(written) = 1
             /\ \A i \in ok : written[1] = attempts[i].reply
             /\ (ok = {}) => (written[1].Rcode = 2 /\ written[1].Answer = <<>>)

\* a request of another opcode, answered after a failed exchange
C13_Witness ==
    /\ qpc = "done"
    /\ req.Opcode = 2
    /\ Len(attempts) >= 2
    /\ attempts[1].err
    /\ ~Last(attempts).err
    /\ written = <<Last(attempts).reply>>

\* the number of exchanges of attempts[i]'s tryWithConfig call made up to i
NthOfCall(i) ==
    Cardinality({j \in 1..i : SameCall(attempts[j].at, attempts[i].at)})

\* C14 as stated: within one tryWithConfig call no TCP exchange precedes a UDP
\* one, and no (transport, address) pair is tried twice.
C14_EachPairAtMostOnce ==
    \A i, j \in DOMAIN attempts :
        (i < j /\ SameCall(attempts[i].at, attempts[j].at)) =>
            /\ (attempts[i].at.net = "tcp") => (attempts[j].at.net = "tcp")
            /\ <<attempts[i].at.net, attempts[i].at.addr>> #
                  <<attempts[j].at.net, attempts[j].at.addr>>

\* C14, amended: the k-th exchange of a tryWithConfig call on a group of n
\* listed servers goes to the listed server k (then k - n) over UDP for k <= n
\* and over TCP after that, and there are at most 2n of them: every entry of
\* the list is tried once per transport, an address listed twice is tried twice.
C14_TransportMajorEntryMinor ==
    \A i \in DOMAIN attempts :
        LET k == NthOfCall(i)
            cc == GroupConfig(attempts[i].at.group)
            n == Len(cc.Servers)
        IN /\ k <= 2 * n
           /\ attempts[i].at.net = (IF k <= n THEN "udp" ELSE "tcp")
           /\ attempts[i].at.addr[1] = cc.Servers[((k - 1) % n) + 1]

\* a group listing one address twice: that address failed twice over UDP, then
\* twice over TCP
C14_Witness ==
    /\ qpc = "done"
    /\ AllFailed
    /\ Len(attempts) = 4
    /\ GroupConfig(attempts[1].at.group).Servers = <<IPPool[1], IPPool[1]>>
    /\ [i \in 1..4 |-> attempts[i].at.net] = <<"udp", "udp", "tcp", "tcp">>
    /\ \A i \in 1..4 : attempts[i].at.addr[1] = IPPool[1]

\* the server addresses held by a list of configurations
RECURSIVE ServerCount(_)
ServerCount(ccs) ==
    IF ccs = <<>> THEN 0 ELSE Len(ccs[1].Servers) + ServerCount(Tail(ccs))

\* the server addresses of the groups of the scopes in keys
RECURSIVE ScopedServerCount(_)
ScopedServerCount(keys) ==
    IF keys = {} THEN 0
    ELSE LET k == CHOOSE x \in keys : TRUE
         IN ServerCount(h.domainClientConfigs[k]) + ScopedServerCount(keys \ {k})

\* per question, the server addresses of the groups whose scope the question's
\* name matches on a label boundary
RECURSIVE MatchingServerCount(_)
MatchingServerCount(qs) ==
    IF qs = <<>> THEN 0
    ELSE ScopedServerCount({k \in DOMAIN h.domainClientConfigs :
                               LabelMatch(qs[1].Name, k)})
         + MatchingServerCount(Tail(qs))

\* C15: ServeDNS makes at most 2 x (the server addresses of the domain groups
\* matching its questions + the server addresses of all default groups)
\* exchanges, and has written one reply, an upstream answer or the synthesized
\* failure, when it returns.
C15_AttemptsBounded ==
    /\ Len(attempts) <=
          2 * (MatchingServerCount(req.Question) + ServerCount(h.defaultClientConfigs))
    /\ (qpc = "done") => (Len(written) = 1)

C17_OtherOpcodesUseDefaultChainOnly ==
    (qpc # "idle" /\ req.Opcode # OpcodeQuery /\ req.Opcode # OpcodeIQuery) =>
        /\ \A i \in DOMAIN attempts :
              /\ ~Scoped(attempts[i])
              /\ \A j \in 1..(i - 1) :
                    attempts[j].at.group.idx <= attempts[i].at.group.idx
              /\ \A g \in 1..(attempts[i].at.group.idx - 1) :
                    (h.defaultClientConfigs[g].Servers # <<>>) =>
                        \E j \in 1..(i - 1) : attempts[j].at.group.idx = g
        /\ (qpc = "done" /\ AllFailed) =>
              /\ Len(attempts) = 2 * ServerCount(h.defaultClientConfigs)
              /\ written = <<[Id |-> req.Id, Response |-> TRUE, Opcode |-> req.Opcode,
                              RecursionAvailable |-> FALSE, Rcode |-> 2,
                              Answer |-> <<>>]>>

\* a request of another opcode whose question is under a configured scope: the
\* default chain failed and the scoped groups were left alone
C17_Witness ==
    /\ qpc = "done"
    /\ req.Opcode = 2
    /\ \E qi \in DOMAIN req.Question : \E k \in DOMAIN h.domainClientConfigs :
          LabelMatch(req.Question[qi].Name, k)
    /\ attempts # <<>>
    /\ AllFailed
    /\ written # <<>>
    /\ written[1].Rcode = 2

\* positions, in the list the platform returned, of the reachable entries whose
\* Domain is key
EntriesOf(key) ==
    {i \in DOMAIN env.scutil.Resolvers :
        env.scutil.Resolvers[i].Reachable /\ env.scutil.Resolvers[i].Domain = key}

\* ccs holds one group per entry of idxs, in ascending order of the entries'
\* ordering hints
InHintOrder(ccs, idxs) ==
    \E p \in Perms(idxs) :
        /\ \A j, k \in DOMAIN p :
              (j < k) => (env.scutil.Resolvers[p[j]].Order <=
                             env.scutil.Resolvers[p[k]].Order)
        /\ [j \in DOMAIN ccs |-> ccs[j].Servers] =
              [j \in DOMAIN p |-> env.scutil.Resolvers[p[j]].Nameservers]

C19_NeverBothTablesEmpty ==
    (startResult = "server") =>
        (DOMAIN h.domainClientConfigs # {} \/ h.defaultClientConfigs # <<>>)

\* C20: every key of the domain table is lowercase, and the group of every
\* reachable scoped entry is in the list of its Domain's lowercase form.
C20_KeysLowercase ==
    (startResult = "server" /\ ~env.scutil.err) =>
        /\ \A key \in DOMAIN h.domainClientConfigs : ToLower(key) = key
        /\ \A i \in DOMAIN env.scutil.Resolvers :
              LET r == env.scutil.Resolvers[i]
              IN (r.Reachable /\ r.Domain # <<>>) =>
                    /\ ToLower(r.Domain) \in DOMAIN h.domainClientConfigs
                    /\ \E j \in DOMAIN h.domainClientConfigs[ToLower(r.Domain)] :
                          h.domainClientConfigs[ToLower(r.Domain)][j].Servers =
                             r.Nameservers

\* C21: every group that discovery put in the default chain or in the domain
\* table has at least one server address, whichever layer it came from.
C21_GroupsHaveServers ==
    (startResult = "server") =>
        /\ \A i \in DOMAIN h.defaultClientConfigs :
              h.defaultClientConfigs[i].Servers # <<>>
        /\ \A key \in DOMAIN h.domainClientConfigs :
              \A i \in DOMAIN h.domainClientConfigs[key] :
                 h.domainClientConfigs[key][i].Servers # <<>>

\* the places of the default chain holding a group with the servers ns
DefaultPlacesOf(ns) ==
    {j \in DOMAIN h.defaultClientConfigs : h.defaultClientConfigs[j].Servers = ns}

\* the places (key, index) of the domain table holding a group with the servers ns
DomainPlacesOf(ns) ==
    UNION {{<<key, j>> : j \in {x \in DOMAIN h.domainClientConfigs[key] :
                                   h.domainClientConfigs[key][x].Servers = ns}} :
              key \in DOMAIN h.domainClientConfigs}

\* C22: after discovery from platform entries an unreachable entry has no group
\* anywhere; a reachable entry has exactly one, in the default chain when its
\* Domain is empty and in the domain table otherwise; the tables hold no other
\* group.
C22_OneGroupPerReachableEntry ==
    (startResult = "server" /\ ~env.scutil.err) =>
        /\ \A i \in DOMAIN env.scutil.Resolvers :
              LET r == env.scutil.Resolvers[i]
                  inDefault == Cardinality(DefaultPlacesOf(r.Nameservers))
                  inDomain == Cardinality(DomainPlacesOf(r.Nameservers))
              IN /\ ~r.Reachable => (inDefault = 0 /\ inDomain = 0)
                 /\ (r.Reachable /\ r.Domain = <<>>) => (inDefault = 1 /\ inDomain = 0)
                 /\ (r.Reachable /\ r.Domain # <<>>) => (inDefault = 0 /\ inDomain = 1)
        /\ Len(h.defaultClientConfigs) = Cardinality(EntriesOf(<<>>))
        /\ \A key \in DOMAIN h.domainClientConfigs :
              /\ key # <<>>
              /\ Len(h.domainClientConfigs[key]) = Cardinality(EntriesOf(key))
              /\ EntriesOf(key) # {}

\* an unreachable entry between a reachable scoped and a reachable unscoped
\* one: one group in the domain table, one in the default chain
C22_Witness ==
    /\ startResult = "server"
    /\ Len(env.scutil.Resolvers) = 3
    /\ env.scutil.Resolvers[1].Reachable /\ env.scutil.Resolvers[1].Domain # <<>>
    /\ ~env.scutil.Resolvers[2].Reachable
    /\ env.scutil.Resolvers[3].Reachable /\ env.scutil.Resolvers[3].Domain = <<>>
    /\ h.defaultClientConfigs = <<ClientConfig(<<IPPool[3]>>)>>
    /\ DomainPlacesOf(<<IPPool[1]>>) = {<<env.scutil.Resolvers[1].Domain, 1>>}
    /\ DomainPlacesOf(<<IPPool[2]>>) = {}

====
